---------------------------- MODULE Spec2Model ----------------------------
(***************************************************************************)
(* Model of cyberchef_api_mcp_server/server.py: the recipe encoder         *)
(* (convert_recipe_to_api_format), the transport client                    *)
(* (create_api_request) and the three tools (bake_recipe,                  *)
(* batch_bake_recipe, perform_magic_operation).                            *)
(*                                                                         *)
(* JSON values are uniform records so that any two of them can be          *)
(* compared.  A Python exception that leaves a function is modelled as an  *)
(* outcome of that function (field "raised" holds the exception's name).   *)
(***************************************************************************)
EXTENDS Integers, Sequences, FiniteSets, TLC

VARIABLES
    pc,             \* position of the current tool call
    tool,           \* which tool is being called
    request_data,   \* the request body built by the tool, until it is POSTed
    outcome,        \* what the HTTP exchange produced (network result, status, body)
    response_data,  \* what create_api_request returned to the tool
    result,         \* what the tool returned to the host
    raised,         \* name of the exception that left the tool ("none" if none)
    raised_in,      \* the function the exception was raised in
    posts,          \* number of HTTP POSTs issued by the current tool call
    encodes,        \* number of calls of convert_recipe_to_api_format by the call
    recipe,         \* encoder input (encoder specification)
    api_recipe,     \* encoder output (encoder specification)
    enc_pc,         \* "in" before the encoder ran, "out" after
    dec_mode,       \* "single" (bake_recipe's step) or "batch" (batch_bake_recipe's)
    dec_orig,       \* decoder input (decoder specification)
    dec_cur,        \* decoder value after the passes applied so far
    dec_prev,       \* decoder value before the latest pass
    dec_passes      \* number of decode passes applied

vars == <<pc, tool, request_data, outcome, response_data, result, raised,
          raised_in, posts, encodes, recipe, api_recipe, enc_pc,
          dec_mode, dec_orig, dec_cur, dec_prev, dec_passes>>

callVars == <<pc, tool, request_data, outcome, response_data, result, raised,
              raised_in, posts, encodes>>
encVars == <<recipe, api_recipe, enc_pc>>
decVars == <<dec_mode, dec_orig, dec_cur, dec_prev, dec_passes>>

----------------------------------------------------------------------------
(* Bounds *)

MaxRecipe == 2      \* longest recipe
MaxBytes == 2       \* longest enumerated byte-array value
MaxBatch == 2       \* longest batch response
MaxPasses == 2      \* decode passes applied to one value

----------------------------------------------------------------------------
(* Sequences over a set, up to a length *)

SeqUpTo(S, n) == UNION {[1..k -> S] : k \in 0..n}

----------------------------------------------------------------------------
(* Operation descriptors: CyberChefRecipeOperation *)

Scalar(v) == [kind |-> "scalar", v |-> v]
Mapping(v) == [kind |-> "dict", v |-> v]
Nested(v) == [kind |-> "list", v |-> v]

\* args: Optional[list] = None
NoneArgs == [none |-> TRUE, list |-> <<>>]
ListArgs(l) == [none |-> FALSE, list |-> l]

ArgChoices ==
    { NoneArgs,
      ListArgs(<<>>),
      ListArgs(<<Scalar("Colon")>>),
      ListArgs(<<Scalar("Dash/Dot"), Scalar("Backslash")>>),
      ListArgs(<<Mapping("delimiter:Colon")>>),
      ListArgs(<<Nested("[1,2]"), Scalar("Comma")>>) }

OpNames == {"To Upper case", "From Hex"}

CyberChefRecipeOperation == [op : OpNames, args : ArgChoices]

Recipes == SeqUpTo(CyberChefRecipeOperation, MaxRecipe)

\* Python truthiness and len() of op.args
Truthy(args) == ~args.none /\ Len(args.list) > 0
HasNoArgs(op) == ~Truthy(op.args) \/ Len(op.args.list) = 0

----------------------------------------------------------------------------
(* Wire recipe elements: a bare name string, or an object {"op", "args"?} *)

BareName(name) ==
    [shape |-> "str", op |-> name, has_args |-> FALSE, args |-> <<>>]

\* a slip: "args" is set whether or not the descriptor has arguments
OpDict_always_args(op) ==
    [shape |-> "obj", op |-> op.op, has_args |-> TRUE, args |-> op.args.list]

\* op_dict = {"op": op.op}; op_dict["args"] = op.args only when non-empty
OpDict(op) ==
    IF Truthy(op.args) /\ Len(op.args.list) > 0
    THEN IF Len(op.args.list) = 1 /\ op.args.list[1].kind \notin {"dict", "list"}
         THEN [shape |-> "obj", op |-> op.op, has_args |-> TRUE,
               args |-> op.args.list]
         ELSE [shape |-> "obj", op |-> op.op, has_args |-> TRUE,
               args |-> op.args.list]
    ELSE [shape |-> "obj", op |-> op.op, has_args |-> FALSE, args |-> <<>>]

\* a slip: the shape is chosen descriptor by descriptor
convert_per_descriptor(r) ==
    [i \in 1..Len(r) |->
        IF HasNoArgs(r[i]) THEN BareName(r[i].op) ELSE OpDict(r[i])]

convert_recipe_to_api_format(r) ==
    IF Len(r) = 0 THEN <<>>
    ELSE IF \A i \in 1..Len(r) : HasNoArgs(r[i])
         THEN [i \in 1..Len(r) |-> BareName(r[i].op)]
         ELSE [i \in 1..Len(r) |-> OpDict(r[i])]

----------------------------------------------------------------------------
(* JSON values handed around by the transport client and the tools *)

NoField == "<absent>"       \* a key that is missing (dict.get gives None)

\* elements of a JSON array found under "value"
JInt(n) == [isint |-> TRUE, n |-> n]
JStr == [isint |-> FALSE, n |-> 0]

\* what is found under "value"
AbsentV == [k |-> "absent", elems |-> <<>>, text |-> <<>>, n |-> 0]
NullV == [k |-> "null", elems |-> <<>>, text |-> <<>>, n |-> 0]
TextV(t) == [k |-> "text", elems |-> <<>>, text |-> t, n |-> 0]
IntV(n) == [k |-> "int", elems |-> <<>>, text |-> <<>>, n |-> n]
ObjectV(n) == [k |-> "object", elems |-> <<>>, text |-> <<>>, n |-> n]
ListV(l) == [k |-> "list", elems |-> l, text |-> <<>>, n |-> 0]

\* what is found under "message"
NoMessage == [k |-> "absent", s |-> ""]
NullMessage == [k |-> "null", s |-> ""]
StrMessage(s) == [k |-> "str", s |-> s]

\* what is found under "error"
NoError == [present |-> FALSE, prefix |-> "", status |-> 0, detail |-> ""]

Dict(t, v, m, e) ==
    [kind |-> "dict", type |-> t, value |-> v, message |-> m, error |-> e,
     items |-> <<>>]
TypedResult(t, v) == Dict(t, v, NoMessage, NoError)
JList(items) ==
    [kind |-> "list", type |-> NoField, value |-> AbsentV,
     message |-> NoMessage, error |-> NoError, items |-> items]
JScalar ==
    [kind |-> "scalar", type |-> NoField, value |-> AbsentV,
     message |-> NoMessage, error |-> NoError, items |-> <<>>]

\* {"error": f"HTTP {status}: {detail}"} and
\* {"error": f"Exception raised during HTTP POST request to {api_url} - {exc}"}
ErrorResult(prefix, status, detail) ==
    Dict(NoField, AbsentV, NoMessage,
         [present |-> TRUE, prefix |-> prefix, status |-> status,
          detail |-> detail])

----------------------------------------------------------------------------
(* bytes(value): the byte string built from what is under "value" *)

RECURSIVE FirstBad(_, _)
\* index of the first element that is no integer in range(0, 256); 0 if none
FirstBad(l, i) ==
    IF i > Len(l) THEN 0
    ELSE IF ~l[i].isint \/ l[i].n < 0 \/ l[i].n > 255 THEN i
    ELSE FirstBad(l, i + 1)

BytesOf(v) ==
    CASE v.k = "absent" -> [exc |-> "KeyError", bytes |-> <<>>]
      [] v.k = "null" -> [exc |-> "TypeError", bytes |-> <<>>]
      [] v.k = "text" -> [exc |-> "TypeError", bytes |-> <<>>]
      [] v.k = "int" ->
            IF v.n < 0 THEN [exc |-> "ValueError", bytes |-> <<>>]
            ELSE [exc |-> "none", bytes |-> [i \in 1..v.n |-> 0]]
      [] v.k = "object" ->
            IF v.n = 0 THEN [exc |-> "none", bytes |-> <<>>]
            ELSE [exc |-> "TypeError", bytes |-> <<>>]
      [] v.k = "list" ->
            LET bad == FirstBad(v.elems, 1) IN
            IF bad = 0
            THEN [exc |-> "none",
                  bytes |-> [i \in 1..Len(v.elems) |-> v.elems[i].n]]
            ELSE IF ~v.elems[bad].isint
                 THEN [exc |-> "TypeError", bytes |-> <<>>]
                 ELSE [exc |-> "ValueError", bytes |-> <<>>]

----------------------------------------------------------------------------
(* bytes.decode(): strict UTF-8 *)

\* length of the sequence a lead byte announces; 0 for a byte that cannot lead
Utf8Need(b) ==
    IF b < 128 THEN 1
    ELSE IF b >= 194 /\ b <= 223 THEN 2
    ELSE IF b >= 224 /\ b <= 239 THEN 3
    ELSE IF b >= 240 /\ b <= 244 THEN 4
    ELSE 0

\* range allowed for the byte after lead byte b
Utf8SecondLo(b) == IF b = 224 THEN 160 ELSE IF b = 240 THEN 144 ELSE 128
Utf8SecondHi(b) == IF b = 237 THEN 159 ELSE IF b = 244 THEN 143 ELSE 191

IsCont(b) == b >= 128 /\ b <= 191

Utf8CodePoint(bs, i, n) ==
    CASE n = 1 -> bs[i]
      [] n = 2 -> (bs[i] - 192) * 64 + (bs[i + 1] - 128)
      [] n = 3 -> (bs[i] - 224) * 4096 + (bs[i + 1] - 128) * 64
                    + (bs[i + 2] - 128)
      [] n = 4 -> (bs[i] - 240) * 262144 + (bs[i + 1] - 128) * 4096
                    + (bs[i + 2] - 128) * 64 + (bs[i + 3] - 128)

Utf8Fail == [ok |-> FALSE, text |-> <<>>]

RECURSIVE Utf8From(_, _)
Utf8From(bs, i) ==
    IF i > Len(bs) THEN [ok |-> TRUE, text |-> <<>>]
    ELSE LET n == Utf8Need(bs[i]) IN
         IF n = 0 \/ i + n - 1 > Len(bs) THEN Utf8Fail
         ELSE IF n >= 2 /\ ~(bs[i + 1] >= Utf8SecondLo(bs[i])
                              /\ bs[i + 1] <= Utf8SecondHi(bs[i]))
              THEN Utf8Fail
         ELSE IF \E j \in 2..(n - 1) : ~IsCont(bs[i + j])
              THEN Utf8Fail
         ELSE LET rest == Utf8From(bs, i + n) IN
              IF rest.ok
              THEN [ok |-> TRUE,
                    text |-> <<Utf8CodePoint(bs, i, n)>> \o rest.text]
              ELSE Utf8Fail

Utf8Decode(bs) == Utf8From(bs, 1)

----------------------------------------------------------------------------
(* The decode step of bake_recipe and of batch_bake_recipe *)

Returned(d) == [raised |-> "none", data |-> d]
Raised(name, d) == [raised |-> name, data |-> d]

\* a slip: the value is rewritten and the type tag is left as it was
TryDecode_value_only(d) ==
    LET b == BytesOf(d.value) IN
    IF b.exc \in {"ValueError", "TypeError"} THEN Returned(d)
    ELSE IF b.exc # "none" THEN Raised(b.exc, d)
    ELSE LET u == Utf8Decode(b.bytes) IN
         IF ~u.ok THEN Returned(d)
         ELSE Returned([d EXCEPT !.value = TextV(u.text)])

\* try: decoded_value = bytes(response["value"]).decode(); ...
\* except (ValueError, TypeError): log.warning(...)
TryDecode(d) ==
    LET b == BytesOf(d.value) IN
    IF b.exc \in {"ValueError", "TypeError"} THEN Returned(d)
    ELSE IF b.exc # "none" THEN Raised(b.exc, d)
    ELSE LET u == Utf8Decode(b.bytes) IN
         IF ~u.ok THEN Returned(d)      \* UnicodeDecodeError is a ValueError
         ELSE Returned([d EXCEPT !.value = TextV(u.text), !.type = "string"])

\* a slip: every tagged result is decoded, whatever its tag
bake_decode_any_tag(response) ==
    IF response.kind # "dict" THEN Raised("AttributeError", response)
    ELSE IF response.type # NoField THEN TryDecode(response)
         ELSE Returned(response)

\* data_type = response_data.get("type"); if data_type == "byteArray": ...
bake_decode(response) ==
    IF response.kind # "dict" THEN Raised("AttributeError", response)
    ELSE IF response.type # NoField /\ response.type = "byteArray"
         THEN TryDecode(response)
         ELSE Returned(response)

RECURSIVE batch_loop(_, _)
\* for response in response_data: ...   (elements are rewritten in place,
\* in order; an exception leaves the loop and the function)
batch_loop(items, i) ==
    IF i > Len(items) THEN Returned(items)
    ELSE LET one ==
               IF items[i].kind # "dict"
               THEN Raised("AttributeError", items[i])
               ELSE IF items[i].type # NoField /\ items[i].type = "byteArray"
                    THEN TryDecode(items[i])
                    ELSE Returned(items[i])
         IN IF one.raised # "none" THEN Raised(one.raised, items)
            ELSE batch_loop([items EXCEPT ![i] = one.data], i + 1)

\* if isinstance(response_data, list): ...; return response_data
batch_decode(response) ==
    IF response.kind = "list"
    THEN LET l == batch_loop(response.items, 1) IN
         IF l.raised # "none" THEN Raised(l.raised, response)
         ELSE Returned([response EXCEPT !.items = l.data])
    ELSE Returned(response)

----------------------------------------------------------------------------
(* The HTTP exchange and create_api_request *)

NotJSON == [json |-> FALSE, data |-> JScalar]
JsonBody(j) == [json |-> TRUE, data |-> j]

\* response.raise_for_status(): every status outside 2xx raises HTTPStatusError
IsSuccess(status) == status >= 200 /\ status <= 299

\* str(http_exc): httpx's description of the status error
HTTPStatusErrorStr == "<str(http_exc)>"

\* f"{...}" of what error_data.get('message', str(http_exc)) gave
FormatMessage(m) ==
    CASE m.k = "absent" -> HTTPStatusErrorStr
      [] m.k = "null" -> "None"
      [] m.k = "str" -> m.s

\* a slip: the body's message is never looked at
HttpErrorResult_generic(status, body) ==
    ErrorResult("HTTP", status, HTTPStatusErrorStr)

HttpErrorResult(status, body) ==
    IF body.json /\ body.data.kind = "dict"
    THEN ErrorResult("HTTP", status, FormatMessage(body.data.message))
    ELSE \* response.json() or .get raised: the bare except
         ErrorResult("HTTP", status, HTTPStatusErrorStr)

\* a slip: a failed POST is sent a second time
create_api_request_retry(endpoint, request, o) ==
    IF o.net # "ok"
    THEN [raised |-> "none", posts |-> 2,
          ret |-> ErrorResult("Exception raised during HTTP POST request",
                              0, o.net)]
    ELSE IF IsSuccess(o.status)
         THEN IF o.body.json
              THEN [raised |-> "none", posts |-> 1, ret |-> o.body.data]
              ELSE [raised |-> "JSONDecodeError", posts |-> 1, ret |-> JScalar]
         ELSE [raised |-> "none", posts |-> 2,
               ret |-> HttpErrorResult(o.status, o.body)]

\* o is what the one httpx.post call produced
create_api_request(endpoint, request, o) ==
    IF o.net # "ok"
    THEN \* except httpx.RequestError
         [raised |-> "none", posts |-> 1,
          ret |-> ErrorResult("Exception raised during HTTP POST request",
                              0, o.net)]
    ELSE IF IsSuccess(o.status)
         THEN IF o.body.json
              THEN [raised |-> "none", posts |-> 1, ret |-> o.body.data]
              ELSE \* response.json() raises; no except clause matches
                   [raised |-> "JSONDecodeError", posts |-> 1, ret |-> JScalar]
         ELSE \* except httpx.HTTPStatusError
              [raised |-> "none", posts |-> 1,
               ret |-> HttpErrorResult(o.status, o.body)]

----------------------------------------------------------------------------
(* What the remote engine and the network can answer *)

Hello == <<JInt(104), JInt(101), JInt(108), JInt(108), JInt(111)>>
Euro == <<JInt(226), JInt(130), JInt(172)>>
Surrogate == <<JInt(237), JInt(160), JInt(128)>>

ByteElems == {JInt(104), JInt(195), JInt(169), JInt(256), JStr}

ByteLists == SeqUpTo(ByteElems, MaxBytes) \cup {Hello, Euro, Surrogate}

Values ==
    {AbsentV, NullV, TextV(<<104, 105>>), IntV(-1), IntV(2), ObjectV(0),
     ObjectV(1)} \cup {ListV(l) : l \in ByteLists}

Types == {NoField, "byteArray", "string", "number"}

Dicts ==
    {TypedResult(t, v) : t \in Types, v \in Values}
    \cup {Dict(NoField, AbsentV, StrMessage("boom"), NoError),
          Dict(NoField, AbsentV, NullMessage, NoError)}

BatchItems ==
    { TypedResult("byteArray", ListV(<<JInt(104)>>)),
      TypedResult("byteArray", ListV(<<JInt(195), JInt(169)>>)),
      TypedResult("byteArray", ListV(<<JInt(195)>>)),
      TypedResult("byteArray", ListV(<<JInt(256)>>)),
      TypedResult("byteArray", AbsentV),
      TypedResult("string", TextV(<<104, 105>>)),
      TypedResult(NoField, AbsentV),
      JScalar }

Lists == {JList(l) : l \in SeqUpTo(BatchItems, MaxBatch)}

JsonValues == Dicts \cup Lists \cup {JScalar}

Bodies == {NotJSON} \cup {JsonBody(j) : j \in JsonValues}

Statuses == {200, 201, 302, 404, 500}

Outcomes ==
    [net : {"ok"}, status : Statuses, body : Bodies]
    \cup [net : {"ReadTimeout", "ConnectError"}, status : {0}, body : {NotJSON}]

----------------------------------------------------------------------------
(* Tool calls *)

Unset ==
    [kind |-> "unset", type |-> NoField, value |-> AbsentV,
     message |-> NoMessage, error |-> NoError, items |-> <<>>]

NoMagicArgs ==
    [depth |-> 0, intensive_mode |-> FALSE,
     extensive_language_support |-> FALSE, crib |-> ""]
NoRequest ==
    [endpoint |-> "", input |-> <<>>, recipe |-> <<>>, args |-> NoMagicArgs]
NoOutcome == [net |-> "none", status |-> 0, body |-> NotJSON]

InputData == {"68656c6c6f"}
BatchInputData == {<<>>, <<"a", "b">>}
MagicArgs ==
    [depth : {0, 3}, intensive_mode : BOOLEAN,
     extensive_language_support : {FALSE}, crib : {""}]

\* the recipes the tools are called with (the encoder is checked over all of
\* Recipes under SpecEncode)
CallRecipes ==
    { <<>>,
      <<[op |-> "From Hex", args |-> NoneArgs]>>,
      <<[op |-> "To Upper case", args |-> ListArgs(<<>>)],
        [op |-> "From Hex", args |-> ListArgs(<<Scalar("Colon")>>)]>> }

CallInit ==
    /\ pc = "idle"
    /\ tool = "none"
    /\ request_data = NoRequest
    /\ outcome = NoOutcome
    /\ response_data = Unset
    /\ result = Unset
    /\ raised = "none"
    /\ raised_in = "none"
    /\ posts = 0
    /\ encodes = 0

EncIdle == recipe = <<>> /\ api_recipe = <<>> /\ enc_pc = "in"

DecIdle ==
    /\ dec_mode = "single"
    /\ dec_orig = Unset
    /\ dec_cur = Returned(Unset)
    /\ dec_prev = Returned(Unset)
    /\ dec_passes = 0

\* bake_recipe, up to the call of create_api_request
bake_recipe_request ==
    /\ pc = "idle"
    /\ \E input_data \in InputData, r \in CallRecipes :
          request_data' = [endpoint |-> "bake", input |-> <<input_data>>,
                           recipe |-> convert_recipe_to_api_format(r),
                           args |-> NoMagicArgs]
    /\ tool' = "bake"
    /\ encodes' = encodes + 1
    /\ pc' = "request"
    /\ UNCHANGED <<outcome, response_data, result, raised, raised_in, posts>>
    /\ UNCHANGED <<encVars, decVars>>

\* batch_bake_recipe, up to the call of create_api_request
batch_bake_recipe_request ==
    /\ pc = "idle"
    /\ \E batch_input_data \in BatchInputData, r \in CallRecipes :
          request_data' = [endpoint |-> "batch/bake",
                           input |-> batch_input_data,
                           recipe |-> convert_recipe_to_api_format(r),
                           args |-> NoMagicArgs]
    /\ tool' = "batch"
    /\ encodes' = encodes + 1
    /\ pc' = "request"
    /\ UNCHANGED <<outcome, response_data, result, raised, raised_in, posts>>
    /\ UNCHANGED <<encVars, decVars>>

\* perform_magic_operation, up to the call of create_api_request
perform_magic_operation_request ==
    /\ pc = "idle"
    /\ \E input_data \in InputData, a \in MagicArgs :
          request_data' = [endpoint |-> "magic", input |-> <<input_data>>,
                           recipe |-> <<>>, args |-> a]
    /\ tool' = "magic"
    /\ pc' = "request"
    /\ UNCHANGED <<outcome, response_data, result, raised, raised_in, posts,
                   encodes>>
    /\ UNCHANGED <<encVars, decVars>>

\* the call of create_api_request: the POST, and the handling of what it gave.
\* The request body is consumed by the POST.
Exchange ==
    /\ pc = "request"
    /\ \E o \in Outcomes :
          LET r == create_api_request(request_data.endpoint, request_data, o)
          IN /\ outcome' = o
             /\ posts' = posts + r.posts
             /\ IF r.raised = "none"
                THEN /\ response_data' = r.ret
                     /\ pc' = "returned"
                     /\ UNCHANGED <<raised, raised_in>>
                ELSE /\ raised' = r.raised
                     /\ raised_in' = "create_api_request"
                     /\ pc' = "fault"
                     /\ UNCHANGED response_data
    /\ request_data' = NoRequest
    /\ UNCHANGED <<tool, result, encodes>>
    /\ UNCHANGED <<encVars, decVars>>

Finish(step, name) ==
    /\ IF step.raised = "none"
       THEN /\ result' = step.data
            /\ pc' = "done"
            /\ UNCHANGED <<raised, raised_in>>
       ELSE /\ raised' = step.raised
            /\ raised_in' = name
            /\ pc' = "fault"
            /\ UNCHANGED result
    /\ UNCHANGED <<tool, request_data, outcome, response_data, posts, encodes>>
    /\ UNCHANGED <<encVars, decVars>>

\* bake_recipe, after create_api_request returned
bake_recipe_decode ==
    /\ pc = "returned"
    /\ tool = "bake"
    /\ Finish(bake_decode(response_data), "bake_recipe")

\* batch_bake_recipe, after create_api_request returned
batch_bake_recipe_decode ==
    /\ pc = "returned"
    /\ tool = "batch"
    /\ Finish(batch_decode(response_data), "batch_bake_recipe")

\* perform_magic_operation: return create_api_request(...)
perform_magic_operation_return ==
    /\ pc = "returned"
    /\ tool = "magic"
    /\ Finish(Returned(response_data), "perform_magic_operation")

\* the host receives the result (or the fault); the next call starts afresh
NextCall ==
    /\ pc \in {"done", "fault"}
    /\ pc' = "idle"
    /\ tool' = "none"
    /\ request_data' = NoRequest
    /\ outcome' = NoOutcome
    /\ response_data' = Unset
    /\ result' = Unset
    /\ raised' = "none"
    /\ raised_in' = "none"
    /\ posts' = 0
    /\ encodes' = 0
    /\ UNCHANGED <<encVars, decVars>>

Init == CallInit /\ EncIdle /\ DecIdle

Next ==
    \/ bake_recipe_request
    \/ batch_bake_recipe_request
    \/ perform_magic_operation_request
    \/ Exchange
    \/ bake_recipe_decode
    \/ batch_bake_recipe_decode
    \/ perform_magic_operation_return
    \/ NextCall

Spec == Init /\ [][Next]_vars

----------------------------------------------------------------------------
(* The recipe encoder as a pure function *)

InitEncode ==
    /\ CallInit
    /\ DecIdle
    /\ recipe \in Recipes
    /\ api_recipe = <<>>
    /\ enc_pc = "in"

Encode ==
    /\ enc_pc = "in"
    /\ api_recipe' = convert_recipe_to_api_format(recipe)
    /\ enc_pc' = "out"
    /\ UNCHANGED <<recipe, callVars, decVars>>

NextEncode == Encode

SpecEncode == InitEncode /\ [][NextEncode]_vars

----------------------------------------------------------------------------
(* The decode step as a pure function, applied repeatedly *)

InitDecode ==
    /\ CallInit
    /\ EncIdle
    /\ dec_mode \in {"single", "batch"}
    /\ dec_orig \in JsonValues
    /\ dec_cur = Returned(dec_orig)
    /\ dec_prev = Returned(dec_orig)
    /\ dec_passes = 0

DecodePass(step) ==
    /\ dec_passes < MaxPasses
    /\ dec_cur.raised = "none"
    /\ dec_prev' = dec_cur
    /\ dec_cur' = step
    /\ dec_passes' = dec_passes + 1
    /\ UNCHANGED <<dec_mode, dec_orig, callVars, encVars>>

DecodeSingle == dec_mode = "single" /\ DecodePass(bake_decode(dec_cur.data))

DecodeBatch == dec_mode = "batch" /\ DecodePass(batch_decode(dec_cur.data))

NextDecode == DecodeSingle \/ DecodeBatch

SpecDecode == InitDecode /\ [][NextDecode]_vars

----------------------------------------------------------------------------
(* Vocabulary of the properties *)

\* a descriptor's args are absent or of length zero
ArgsEmpty(op) == op.args.none \/ Len(op.args.list) = 0

AfterExchange == pc \in {"returned", "done", "fault"}

\* the tool has ended, by returning or by an exception of its own
Ended == pc \in {"done", "fault"} /\ raised_in # "create_api_request"

IsErrorResult(j) == j.kind = "dict" /\ j.error.present

\* a byteArray-tagged result
IsByteArray(j) == j.kind = "dict" /\ j.type = "byteArray"

\* its value is a byte string that is valid text
Decodes(j) ==
    /\ BytesOf(j.value).exc = "none"
    /\ Utf8Decode(BytesOf(j.value).bytes).ok

\* UTF-8 encoding of a text, the inverse of the strict decoder
Utf8EncodeCp(c) ==
    IF c < 128 THEN <<c>>
    ELSE IF c < 2048 THEN <<192 + (c \div 64), 128 + (c % 64)>>
    ELSE IF c < 65536
         THEN <<224 + (c \div 4096), 128 + ((c \div 64) % 64), 128 + (c % 64)>>
    ELSE <<240 + (c \div 262144), 128 + ((c \div 4096) % 64),
           128 + ((c \div 64) % 64), 128 + (c % 64)>>

RECURSIVE Utf8Encode(_)
Utf8Encode(t) ==
    IF Len(t) = 0 THEN <<>> ELSE Utf8EncodeCp(Head(t)) \o Utf8Encode(Tail(t))

IsScalarValue(c) == c >= 0 /\ c <= 1114111 /\ ~(c >= 55296 /\ c <= 57343)

\* r is j rewritten to a string result holding j's bytes as text
IsDecodingOf(r, j) ==
    /\ r.kind = "dict"
    /\ r.type = "string"
    /\ r.value.k = "text"
    /\ \A i \in 1..Len(r.value.text) : IsScalarValue(r.value.text[i])
    /\ Utf8Encode(r.value.text) = BytesOf(j.value).bytes
    /\ r.message = j.message
    /\ r.error = j.error

\* r has j's type and value
Untouched(r, j) == r.kind = j.kind /\ r.type = j.type /\ r.value = j.value

----------------------------------------------------------------------------
(* C1: create_api_request never raises to its caller: whatever the POST    *)
(* gave (2xx with any body, non-2xx with any body, network failure) it     *)
(* returns a value, and on every failure path that value is an Error       *)
(* Result.                                                                 *)
C1_NeverRaises ==
    AfterExchange =>
        /\ raised_in # "create_api_request"
        /\ (outcome.net # "ok" \/ ~IsSuccess(outcome.status))
              => IsErrorResult(response_data)

(* C2: in bake_recipe, a byteArray-tagged result whose decoding fails for  *)
(* any reason (invalid text, element outside 0..255, value not a sequence  *)
(* of integers, value malformed or missing) does not make the call fail,   *)
(* and is returned with its type and value untouched.                      *)
C2_DecodeFailureIsHarmless ==
    (tool = "bake" /\ Ended /\ IsByteArray(response_data)
        /\ ~Decodes(response_data))
    => (pc = "done" /\ Untouched(result, response_data))

(* C3: for every result create_api_request hands to bake_recipe that has   *)
(* no type field (an Error Result or any other parsed JSON body without    *)
(* type), bake_recipe returns that result unchanged and without fault.     *)
C3_NoTypeReturnedUnchanged ==
    (tool = "bake" /\ Ended /\ response_data.type = NoField)
    => (pc = "done" /\ result = response_data)

(* C4: batch_bake_recipe decodes each element of a list-shaped response    *)
(* independently: the output has the length and order of the response,     *)
(* every element whose byte array decodes is a string result, every other  *)
(* element is untouched, and there is no fault; a response that is no list *)
(* is returned unchanged.  (Stated for batches whose elements are all      *)
(* mappings, as the elements of a Batch Result are.)                       *)
C4_BatchIndependence ==
    (tool = "batch" /\ Ended
        /\ \A i \in 1..Len(response_data.items) :
              response_data.items[i].kind = "dict") =>
        /\ pc = "done"
        /\ IF response_data.kind = "list"
           THEN /\ result.kind = "list"
                /\ Len(result.items) = Len(response_data.items)
                /\ \A i \in 1..Len(response_data.items) :
                      LET it == response_data.items[i] IN
                      IF IsByteArray(it) /\ Decodes(it)
                      THEN IsDecodingOf(result.items[i], it)
                      ELSE result.items[i] = it
           ELSE result = response_data

(* C5: the encoded recipe never mixes shapes: it is the ordered sequence   *)
(* of bare operation names if and only if every descriptor has absent or   *)
(* zero-length args (the empty recipe giving the empty sequence); with one *)
(* descriptor bearing arguments, every element of the output is an object. *)
C5_ShapesNeverMixed ==
    enc_pc = "out" =>
        /\ Len(api_recipe) = Len(recipe)
        /\ (\A i \in 1..Len(api_recipe) :
                api_recipe[i].shape = "str" /\ api_recipe[i].op = recipe[i].op)
           <=> (\A i \in 1..Len(recipe) : ArgsEmpty(recipe[i]))
        /\ (\E i \in 1..Len(recipe) : ~ArgsEmpty(recipe[i]))
           => (\A j \in 1..Len(api_recipe) : api_recipe[j].shape = "obj")
        /\ Len(recipe) = 0 => api_recipe = <<>>

C5_Witness ==
    /\ enc_pc = "out"
    /\ Len(recipe) = 2
    /\ ArgsEmpty(recipe[1])
    /\ ~ArgsEmpty(recipe[2])
    /\ api_recipe[1].shape = "obj"

(* C6: in object shape the output is index-aligned with the input: element *)
(* i has op equal to descriptor i's name, carries args exactly when        *)
(* descriptor i has non-empty arguments, and then args is the descriptor's *)
(* argument sequence in its original order (one scalar, several scalars,   *)
(* or structured values).                                                  *)
C6_ObjectShapeAligned ==
    (enc_pc = "out" /\ \E i \in 1..Len(recipe) : ~ArgsEmpty(recipe[i])) =>
        /\ Len(api_recipe) = Len(recipe)
        /\ \A i \in 1..Len(recipe) :
              /\ api_recipe[i].shape = "obj"
              /\ api_recipe[i].op = recipe[i].op
              /\ api_recipe[i].has_args <=> ~ArgsEmpty(recipe[i])
              /\ api_recipe[i].has_args
                    => api_recipe[i].args = recipe[i].args.list

C6_Witness ==
    /\ enc_pc = "out"
    /\ Len(recipe) = 2
    /\ recipe[1].args.none
    /\ Len(recipe[2].args.list) = 2
    /\ recipe[2].args.list[1].kind = "list"
    /\ api_recipe[2].has_args
    /\ ~api_recipe[1].has_args

(* C7: after bake_recipe's decode step a byteArray-tagged result whose     *)
(* value decodes comes back with type "string" and value the decoded text  *)
(* ([104,101,108,108,111] becomes "hello"), and type and value are         *)
(* rewritten together, never one without the other.                        *)
C7_DecodedByteArrayIsString ==
    (tool = "bake" /\ pc = "done") =>
        /\ (IsByteArray(response_data) /\ Decodes(response_data))
              => IsDecodingOf(result, response_data)
        /\ (IsByteArray(response_data) /\ response_data.value = ListV(Hello))
              => result.value = TextV(<<104, 101, 108, 108, 111>>)
        /\ (result.type # response_data.type)
              <=> (result.value # response_data.value)

C7_Witness ==
    /\ tool = "bake"
    /\ pc = "done"
    /\ IsByteArray(response_data)
    /\ response_data.value = ListV(<<JInt(195), JInt(169)>>)
    /\ result.type = "string"
    /\ result.value = TextV(<<233>>)

(* C8: for every non-2xx response create_api_request returns an Error      *)
(* Result whose message holds the status code and, when the body parses as *)
(* JSON carrying a message field, that message (HTTP 500 with body         *)
(* {"message": "boom"} gives "HTTP 500: boom"); when the body cannot be    *)
(* parsed or used it holds the generic description of the status.          *)
C8_StatusErrorMapping ==
    (AfterExchange /\ outcome.net = "ok" /\ ~IsSuccess(outcome.status)) =>
        /\ raised_in # "create_api_request"
        /\ IsErrorResult(response_data)
        /\ response_data.error.prefix = "HTTP"
        /\ response_data.error.status = outcome.status
        /\ LET b == outcome.body IN
           IF b.json /\ b.data.kind = "dict" /\ b.data.message.k # "absent"
           THEN response_data.error.detail =
                    (IF b.data.message.k = "str" THEN b.data.message.s
                     ELSE "None")
           ELSE response_data.error.detail = HTTPStatusErrorStr

C8_Witness ==
    /\ pc = "returned"
    /\ tool = "bake"
    /\ outcome.status = 500
    /\ outcome.body = JsonBody(Dict(NoField, AbsentV, StrMessage("boom"),
                                    NoError))
    /\ response_data = ErrorResult("HTTP", 500, "boom")

(* C9: every tool call performs exactly one HTTP exchange, whether it      *)
(* succeeds or fails (no retry after a status error, a timeout or a        *)
(* network failure); the recipe is encoded once, before the exchange, and  *)
(* decoding happens only after the exchange has returned.                  *)
C9_ExactlyOneExchange ==
    /\ pc \in {"idle", "request"} => posts = 0
    /\ AfterExchange => posts = 1
    /\ pc # "idle" => encodes = (IF tool \in {"bake", "batch"} THEN 1 ELSE 0)
    /\ pc = "request" => (response_data = Unset /\ result = Unset)
    /\ result # Unset => (posts = 1 /\ outcome # NoOutcome)

C9_Witness ==
    /\ pc = "done"
    /\ tool = "batch"
    /\ outcome.net = "ReadTimeout"
    /\ posts = 1
    /\ encodes = 1
    /\ IsErrorResult(result)

(* C10: the decode step is idempotent: applied to a result whose type is   *)
(* "string" (or any tag other than byteArray) it changes nothing, and      *)
(* applied twice it gives what one application gives, for a single result  *)
(* and for each element of a batch.                                        *)
C10_DecodeIdempotent ==
    /\ (dec_mode = "single" /\ dec_passes >= 1 /\ dec_orig.kind = "dict"
          /\ dec_orig.type # "byteArray")
       => dec_cur = Returned(dec_orig)
    /\ (dec_mode = "batch" /\ dec_passes >= 1 /\ dec_orig.kind = "list"
          /\ dec_cur.raised = "none")
       => \A i \in 1..Len(dec_orig.items) :
             (dec_orig.items[i].kind = "dict"
                 /\ dec_orig.items[i].type # "byteArray")
             => dec_cur.data.items[i] = dec_orig.items[i]
    /\ dec_passes >= 2 => dec_cur = dec_prev

C10_Witness ==
    /\ dec_mode = "batch"
    /\ dec_passes = 2
    /\ Len(dec_orig.items) = 2
    /\ IsByteArray(dec_orig.items[1])
    /\ dec_cur.raised = "none"
    /\ dec_cur.data.items[1].type = "string"
    /\ dec_cur.data.items[2] = dec_orig.items[2]
    /\ IsByteArray(dec_orig.items[2])

============================================================================
